---- MODULE Spec2Model ----
(***************************************************************************)
(* Model of the research-agent chain of "backend/Intenet agent.py":        *)
(* configuration loading, the structured completion helper                 *)
(* (llm_structured), the internet tools (search_web, fetch_url) and the    *)
(* four chain steps wired together by run_agent.                           *)
(*                                                                         *)
(* Texts are sequences of tokens.  The token DOC stands for the serialized *)
(* JSON document of a response; the document itself (the value a JSON      *)
(* parser reads from it) travels next to the text.  Confidence values are  *)
(* counted in tenths, so the interval [0.0, 1.0] is 0..10.                 *)
(***************************************************************************)
EXTENDS Integers, Sequences, FiniteSets, TLC

\* ---------------------------------------------------------------- bounds
\* Longest list of search tasks a planner response carries.
MaxQueries == 2
\* Longest list of facts a response carries (FactList.facts, key_facts).
MaxFacts == 1
\* Longest list of source URLs a synthesizer response carries.
MaxSources == 2

\* ------------------------------------------------------------ vocabulary
\* A JSON member that is missing from the document (or null).
Absent == "<absent>"
\* Python's None.
None == "<None>"

SeqsUpTo(S, n) == UNION {[1..k -> S] : k \in 0..n}

\* Option values: <<>> is "no object", <<x>> is the object x.
Some(x) == <<x>>
IsSome(o) == Len(o) = 1
Get(o) == o[1]

\* ------------------------------------------------------------------ text
\* The code-fence marker (three backquotes).
FENCE == "FENCE"
JSONTAG == "json"
WS == " "
DOC == "<doc>"
PROSE == "Sure!"
\* A language tag other than the lower-case "json".
OTHERTAG == "JSON"
\* A serialized object is one token, unless one of its string members holds
\* a code-fence marker: then the text is the object up to the marker, the
\* marker, and the rest of the object.
DOC_HEAD == "<doc"
DOC_TAIL == "doc>"
JsonTexts == {<<DOC>>, <<DOC_HEAD, FENCE, DOC_TAIL>>}

RECURSIVE LStrip(_)
LStrip(s) ==
  IF s # <<>> /\ Head(s) = WS THEN LStrip(Tail(s)) ELSE s

RECURSIVE RStrip(_)
RStrip(s) ==
  IF s # <<>> /\ s[Len(s)] = WS THEN RStrip(SubSeq(s, 1, Len(s) - 1)) ELSE s

\* str.strip()
Strip(s) == RStrip(LStrip(s))

\* str.startswith(tok)
StartsWith(s, tok) == s # <<>> /\ Head(s) = tok

\* str.split(sep): the pieces between the occurrences of sep.
RECURSIVE Split(_, _)
Split(s, sep) ==
  IF s = <<>> THEN << <<>> >>
  ELSE LET rest == Split(Tail(s), sep) IN
       IF Head(s) = sep THEN << <<>> >> \o rest
       ELSE << <<Head(s)>> \o Head(rest) >> \o Tail(rest)

\* llm_structured, lines 119-126: strip, drop an opening fence and its
\* language tag, strip again.
StripFences(content) ==
  LET raw1 == Strip(content)
      raw2 == IF StartsWith(raw1, FENCE)
              THEN LET piece == Split(raw1, FENCE)[2] IN
                   IF StartsWith(piece, JSONTAG) THEN Tail(piece) ELSE piece
              ELSE raw1
  IN Strip(raw2)

\* The texts a Completion Provider response may consist of.
ResponseTexts ==
  { <<DOC>>, <<FENCE, JSONTAG, WS, DOC, WS, FENCE>>, <<PROSE>> }

\* --------------------------------------------------------------- schemas
URL_FETCH_KEY == "__url_fetch__"
Queries == {"q1", URL_FETCH_KEY}
Urls == {"a", "b"}

\* The bound check with its upper limit forgotten.
InUnit_no_upper(c) == c >= 0

\* Field(..., ge=0.0, le=1.0), in tenths.
InUnit(c) == c >= 0 /\ c <= 10

SearchQueryDocs == [query : Queries, reason : {"r"}]

PlanDocs ==
  [goal : {"g", Absent},
   search_queries : SeqsUpTo(SearchQueryDocs, MaxQueries),
   needs_url_fetch : {Absent, "true", "false"},
   target_url : {Absent, "", "u"}]

FactConfs == {-1, 0, 10, 11}
FactDocs == [fact : {"f"}, source : Urls, confidence : FactConfs]
FactListDocs == [facts : SeqsUpTo(FactDocs, MaxFacts)]

AnswerConfs == {-1, 0, 10, 11}
AnswerDocs ==
  [query : {"Q"},
   summary : {"s"},
   key_facts : SeqsUpTo(FactDocs, MaxFacts),
   sources : SeqsUpTo(Urls, MaxSources),
   confidence : AnswerConfs,
   follow_up_questions : {<<>>}]
  \cup
  [query : {"Q"},
   summary : {Absent},
   key_facts : {<<>>},
   sources : {<<>>},
   confidence : {10},
   follow_up_questions : {<<>>}]

\* ExtractedFact validation (lines 68-72).
ExtractedFactValid(d) ==
  d.fact # Absent /\ d.source # Absent /\ InUnit(d.confidence)

\* AgentPlan validation (lines 60-65): goal and search_queries are
\* required, needs_url_fetch defaults to False, target_url to None.
AgentPlanValidate(d) ==
  IF d.goal = Absent
  THEN [ok |-> FALSE, value |-> <<>>]
  ELSE [ok |-> TRUE,
        value |-> Some([goal |-> d.goal,
                        search_queries |-> d.search_queries,
                        needs_url_fetch |-> (d.needs_url_fetch = "true"),
                        target_url |-> IF d.target_url = Absent THEN None
                                       ELSE d.target_url])]

\* FactList validation (lines 269-270): every fact must validate.
FactListValidate(d) ==
  IF \A i \in 1..Len(d.facts) : ExtractedFactValid(d.facts[i])
  THEN [ok |-> TRUE, value |-> Some(d.facts)]
  ELSE [ok |-> FALSE, value |-> <<>>]

\* AgentAnswer validation that lets an object without its summary through.
AgentAnswerValidate_partial(d) ==
  IF /\ \A i \in 1..Len(d.key_facts) :
          d.key_facts[i].confidence >= 0 /\ d.key_facts[i].confidence <= 10
     /\ d.confidence >= 0 /\ d.confidence <= 10
  THEN [ok |-> TRUE, value |-> Some(d)]
  ELSE [ok |-> FALSE, value |-> <<>>]

\* AgentAnswer validation (lines 75-82).
AgentAnswerValidate(d) ==
  IF /\ d.query # Absent
     /\ d.summary # Absent
     /\ \A i \in 1..Len(d.key_facts) : ExtractedFactValid(d.key_facts[i])
     /\ InUnit(d.confidence)
  THEN [ok |-> TRUE, value |-> Some(d)]
  ELSE [ok |-> FALSE, value |-> <<>>]

\* output_schema.model_validate_json(raw) (line 128): raw must be exactly
\* one JSON document, and the document must validate against the schema.
model_validate_json(output_schema, raw, doc) ==
  IF raw \notin JsonTexts
  THEN [ok |-> FALSE, value |-> <<>>]
  ELSE CASE output_schema = "AgentPlan" -> AgentPlanValidate(doc)
         [] output_schema = "FactList" -> FactListValidate(doc)
         [] output_schema = "AgentAnswer" -> AgentAnswerValidate(doc)

\* ------------------------------------------------- Completion Provider
\* What client.chat.completions.create (lines 109-117) comes back with:
\* a text together with the document it serializes, or an API error.
DefaultDoc(output_schema) ==
  CASE output_schema = "AgentPlan" ->
         [goal |-> "g", search_queries |-> <<>>,
          needs_url_fetch |-> Absent, target_url |-> Absent]
    [] output_schema = "FactList" -> [facts |-> <<>>]
    [] output_schema = "AgentAnswer" ->
         [query |-> "Q", summary |-> "s", key_facts |-> <<>>,
          sources |-> <<>>, confidence |-> 10, follow_up_questions |-> <<>>]

Docs(output_schema) ==
  CASE output_schema = "AgentPlan" -> PlanDocs
    [] output_schema = "FactList" -> FactListDocs
    [] output_schema = "AgentAnswer" -> AnswerDocs

ApiError(output_schema) ==
  [kind |-> "error", text |-> <<>>, doc |-> DefaultDoc(output_schema)]

Malformed(output_schema) ==
  [kind |-> "text", text |-> <<PROSE>>, doc |-> DefaultDoc(output_schema)]

Responses(output_schema) ==
  {[kind |-> "text", text |-> t, doc |-> d] :
      t \in ResponseTexts \ {<<PROSE>>}, d \in Docs(output_schema)}
  \cup {Malformed(output_schema), ApiError(output_schema)}

\* What the provider would answer to one more call.
NextResponses(output_schema) ==
  {[kind |-> "text", text |-> <<DOC>>, doc |-> DefaultDoc(output_schema)],
   Malformed(output_schema), ApiError(output_schema)}

\* GROQ_API_KEY (line 44) falls back to a placeholder that the provider
\* rejects: every call made with it ends in an API error.
PLACEHOLDER_KEY == "YOUR_GROQ_API_KEY_HERE"
Getenv(env, name, default) == IF env[name] = Absent THEN default ELSE env[name]

ProviderAnswers(key, output_schema, S) ==
  IF key = PLACEHOLDER_KEY THEN {ApiError(output_schema)} ELSE S

\* How the helper's own parsing judges one response.
Classify(output_schema, r) ==
  IF r.kind = "error" THEN "down"
  ELSE IF model_validate_json(output_schema, StripFences(r.text), r.doc).ok
       THEN "valid" ELSE "invalid"

\* llm_structured with a corrective retry: the variant the claims about a
\* second attempt describe.
llm_structured_retry(output_schema, resps) ==
  LET try(i) ==
        IF resps[i].kind = "error" THEN [ok |-> FALSE, value |-> <<>>]
        ELSE model_validate_json(output_schema, StripFences(resps[i].text),
                                 resps[i].doc)
  IN IF resps[1].kind = "error"
     THEN [ok |-> FALSE, err |-> "APIError", value |-> <<>>, calls |-> 1]
     ELSE IF try(1).ok
     THEN [ok |-> TRUE, err |-> "none", value |-> try(1).value, calls |-> 1]
     ELSE IF resps[2].kind = "error"
     THEN [ok |-> FALSE, err |-> "APIError", value |-> <<>>, calls |-> 2]
     ELSE IF try(2).ok
     THEN [ok |-> TRUE, err |-> "none", value |-> try(2).value, calls |-> 2]
     ELSE [ok |-> FALSE, err |-> "ValidationError", value |-> <<>>,
           calls |-> 2]

\* llm_structured that asks again after every rejected response, the last
\* response standing for all further ones.
llm_structured_again(output_schema, resps) ==
  LET r == llm_structured_retry(output_schema, resps) IN
  IF r.ok \/ r.err = "APIError" THEN r
  ELSE [r EXCEPT !.calls = r.calls + 1]

\* llm_structured (lines 91-128): one provider call, fence stripping, schema
\* validation.  An API error and a validation error both propagate.
llm_structured(output_schema, resps) ==
  LET r == resps[1] IN
  IF r.kind = "error"
  THEN [ok |-> FALSE, err |-> "APIError", value |-> <<>>, calls |-> 1]
  ELSE LET v == model_validate_json(output_schema, StripFences(r.text), r.doc)
       IN IF v.ok
          THEN [ok |-> TRUE, err |-> "none", value |-> v.value, calls |-> 1]
          ELSE [ok |-> FALSE, err |-> "ValidationError", value |-> <<>>,
                calls |-> 1]

\* ------------------------------------------------------- internet tools
\* What the Search Provider does with one request: the connection fails,
\* the body is not JSON, or the body is an object with "organic" items.
ItemA == [title |-> "tA", snippet |-> "sA", link |-> "a"]
ItemB == [title |-> Absent, snippet |-> "sB", link |-> "b"]
SearchOutcomes ==
  {[kind |-> "down", organic |-> <<>>], [kind |-> "notjson", organic |-> <<>>],
   [kind |-> "ok", organic |-> <<>>],
   [kind |-> "ok", organic |-> <<ItemA>>], [kind |-> "ok", organic |-> <<ItemB>>]}

\* dict.get(key, "")
GetOr(v) == IF v = Absent THEN "" ELSE v

MockResult == [title |-> "Mock Result", snippet |-> "Mock", link |-> "https://example.com"]

\* search_web that asks the provider even without a key.
search_web_always(key, query, outcome) ==
  IF outcome.kind # "ok"
  THEN [results |-> <<>>, requested |-> TRUE, failed |-> TRUE]
  ELSE [results |-> [i \in 1..Len(outcome.organic) |->
                       [title |-> GetOr(outcome.organic[i].title),
                        snippet |-> GetOr(outcome.organic[i].snippet),
                        link |-> GetOr(outcome.organic[i].link)]],
        requested |-> TRUE, failed |-> FALSE]

\* search_web (lines 149-177): a mock result and no request when
\* SERPER_API_KEY is empty; otherwise one request, every exception of which
\* is turned into an empty list.
search_web(key, query, outcome) ==
  IF key = ""
  THEN [results |-> <<MockResult>>, requested |-> FALSE, failed |-> FALSE]
  ELSE IF outcome.kind # "ok"
  THEN [results |-> <<>>, requested |-> TRUE, failed |-> TRUE]
  ELSE [results |-> [i \in 1..Len(outcome.organic) |->
                       [title |-> GetOr(outcome.organic[i].title),
                        snippet |-> GetOr(outcome.organic[i].snippet),
                        link |-> GetOr(outcome.organic[i].link)]],
        requested |-> TRUE, failed |-> FALSE]

FetchOutcomes == {"down", "ok"}
PAGE_TEXT == "page text"
FETCH_ERROR == "[ERROR fetching]"

\* fetch_url (lines 180-200): the page text, or a placeholder string when
\* anything fails.
fetch_url(url, outcome) ==
  IF outcome = "ok"
  THEN [text |-> PAGE_TEXT, failed |-> FALSE]
  ELSE [text |-> FETCH_ERROR, failed |-> TRUE]

\* ------------------------------------------------------------ raw_results
\* A Python dict in insertion order: a sequence of [key, value] entries.
\* A value is a list of search results or a text.
ListVal(items) == [kind |-> "list", items |-> items, text |-> ""]
TextVal(text) == [kind |-> "text", items |-> <<>>, text |-> text]

DictHas(d, k) == \E i \in 1..Len(d) : d[i].key = k
DictGet(d, k) == d[CHOOSE i \in 1..Len(d) : d[i].key = k].value

\* d[k] = v: an existing key keeps its place and takes the new value.
DictSet(d, k, v) ==
  IF DictHas(d, k)
  THEN [i \in 1..Len(d) |-> IF d[i].key = k THEN [key |-> k, value |-> v]
                            ELSE d[i]]
  ELSE Append(d, [key |-> k, value |-> v])

\* bool(s) of an Optional[str]
Truthy(s) == s # None /\ s # ""

\* The search loop of step_execute (lines 237-240) over the first n tasks.
RECURSIVE SearchLoop(_, _, _, _)
SearchLoop(key, sqs, outs, n) ==
  IF n = 0 THEN [raw |-> <<>>, log |-> <<>>]
  ELSE LET prev == SearchLoop(key, sqs, outs, n - 1)
           r == search_web(key, sqs[n].query, outs[n])
       IN [raw |-> DictSet(prev.raw, sqs[n].query, ListVal(r.results)),
           log |-> Append(prev.log,
                          [query |-> sqs[n].query,
                           requested |-> r.requested,
                           failed |-> r.failed,
                           results |-> r.results])]

\* The fetch condition as "a target_url was planned".
WantsFetch_url_only(p) == Truthy(p.target_url)

\* Whether step_execute fetches (line 242).
WantsFetch(p) == p.needs_url_fetch /\ Truthy(p.target_url)

\* step_execute (lines 228-246).
step_execute(key, p, outs, fout) ==
  LET s == SearchLoop(key, p.search_queries, outs, Len(p.search_queries)) IN
  IF WantsFetch(p)
  THEN LET f == fetch_url(p.target_url, fout) IN
       [raw |-> DictSet(s.raw, URL_FETCH_KEY, TextVal(f.text)),
        searches |-> s.log,
        fetches |-> <<[url |-> p.target_url, failed |-> f.failed,
                       text |-> f.text]>>]
  ELSE [raw |-> s.raw, searches |-> s.log, fetches |-> <<>>]

\* The flattening loop of step_extract (lines 257-265): one context line per
\* entry under "__url_fetch__", one per result under any other key.
RECURSIVE ContextLines(_)
ContextLines(raw) ==
  IF raw = <<>> THEN <<>>
  ELSE LET e == Head(raw) IN
       (IF e.key = URL_FETCH_KEY
        THEN <<[kind |-> "webpage", key |-> e.key, link |-> "",
                body |-> e.value]>>
        ELSE [i \in 1..Len(e.value.items) |->
                [kind |-> "source", key |-> e.key,
                 link |-> e.value.items[i].link,
                 body |-> ListVal(<<e.value.items[i]>>)]])
       \o ContextLines(Tail(raw))

\* run_agent's locals are held for as long as a later step reads them: plan
\* is read by step_execute alone, raw_results by step_extract alone
\* (step_synthesize receives it and never reads it), facts by
\* step_synthesize.  searchLog and fetchLog are the tool calls of Execute;
\* they are observed when Execute has finished and go with raw_results.
VARIABLES
  GROQ_API_KEY,     \* line 44
  SERPER_API_KEY,   \* line 46
  pc,               \* where run_agent stands: "idle", the step about to
                    \* run, "done" (returned) or "failed" (raised)
  plan,             \* the AgentPlan of step_plan (option)
  raw_results,      \* the dict of step_execute (option)
  facts,            \* the list of step_extract (option)
  answer,           \* the AgentAnswer run_agent returned (option)
  error,            \* the exception run_agent raised, "none" if none
  stepLog,          \* the steps started so far, in order
  llm,              \* the last llm_structured call: schema, provider calls,
                    \* outcome, how the provider's response parsed, and how
                    \* its answer to one more call would have parsed
  completionCalls,  \* Completion Provider calls made so far
  searchLog,        \* the search_web calls of Execute, in order
  fetchLog          \* the fetch_url calls of Execute, in order

\* The state of the other entry points of the repository: one pass through
\* the fence stripping of llm_structured on its own, one call of
\* parse_serper_results, one /api/recommend request.  Each has its own
\* specification below; run_agent leaves them alone.
VARIABLES
  fence,            \* llm_structured lines 119-128 applied to one response
  parse,            \* the locals of one parse_serper_results call
  api               \* one /api/recommend request and its outcome

agentVars == <<GROQ_API_KEY, SERPER_API_KEY, pc, plan, raw_results, facts,
               answer, error, stepLog, llm, completionCalls, searchLog,
               fetchLog>>

vars == <<GROQ_API_KEY, SERPER_API_KEY, pc, plan, raw_results, facts, answer,
          error, stepLog, llm, completionCalls, searchLog, fetchLog,
          fence, parse, api>>

NoFence == [pc |-> "none"]
NoParse == [pc |-> "none"]
NoApi == [pc |-> "none"]

EnvNames == {"GROQ_API_KEY", "SERPER_API_KEY"}
Environments == [EnvNames -> {Absent, "key"}]

NoLlm == [schema |-> "none", calls |-> 0, ok |-> FALSE, err |-> "none",
          first |-> "none", next |-> "none"]

\* Module load (lines 44-46, 89): the keys come from the environment with
\* their defaults, the client is built, nothing is checked.
AgentLoaded(env) ==
    /\ GROQ_API_KEY = Getenv(env, "GROQ_API_KEY", PLACEHOLDER_KEY)
    /\ SERPER_API_KEY = Getenv(env, "SERPER_API_KEY", "")
    /\ pc = "idle"
    /\ plan = <<>>
    /\ raw_results = <<>>
    /\ facts = <<>>
    /\ answer = <<>>
    /\ error = "none"
    /\ stepLog = <<>>
    /\ llm = NoLlm
    /\ completionCalls = 0
    /\ searchLog = <<>>
    /\ fetchLog = <<>>

Init ==
  /\ \E env \in Environments : AgentLoaded(env)
  /\ fence = NoFence
  /\ parse = NoParse
  /\ api = NoApi

\* The record of one llm_structured call.
LlmRecord(output_schema, resps, r) ==
  LET first == Classify(output_schema, resps[1]) IN
  [schema |-> output_schema, calls |-> r.calls, ok |-> r.ok, err |-> r.err,
   first |-> first,
   next |-> IF first = "valid" THEN "none"
            ELSE Classify(output_schema, resps[2])]

\* An exception leaves run_agent: its locals are gone, no answer exists.
Raise(err) ==
  /\ pc' = "failed"
  /\ error' = err
  /\ plan' = <<>>
  /\ raw_results' = <<>>
  /\ facts' = <<>>
  /\ answer' = <<>>
  /\ searchLog' = <<>>
  /\ fetchLog' = <<>>

\* run_agent is entered (lines 317-329).
RunAgent ==
  /\ pc = "idle"
  /\ pc' = "plan"
  /\ UNCHANGED <<fence, parse, api>>
  /\ UNCHANGED <<GROQ_API_KEY, SERPER_API_KEY, plan, raw_results, facts,
                 answer, error, stepLog, llm, completionCalls, searchLog,
                 fetchLog>>

\* step_plan (lines 207-225, called at line 331).
StepPlan ==
  /\ pc = "plan"
  /\ \E r1 \in ProviderAnswers(GROQ_API_KEY, "AgentPlan", Responses("AgentPlan")),
        r2 \in ProviderAnswers(GROQ_API_KEY, "AgentPlan", NextResponses("AgentPlan")) :
       LET r == llm_structured("AgentPlan", <<r1, r2>>) IN
       /\ stepLog' = Append(stepLog, "plan")
       /\ llm' = LlmRecord("AgentPlan", <<r1, r2>>, r)
       /\ completionCalls' = completionCalls + r.calls
       /\ IF r.ok
          THEN /\ plan' = r.value
               /\ pc' = "execute"
               /\ UNCHANGED <<raw_results, facts, answer, error, searchLog,
                              fetchLog>>
          ELSE Raise(r.err)
  /\ UNCHANGED <<fence, parse, api>>
  /\ UNCHANGED <<GROQ_API_KEY, SERPER_API_KEY>>

\* step_execute (lines 228-246, called at line 332).  Neither tool raises,
\* so the step always hands its mapping on.
StepExecute ==
  /\ pc = "execute"
  /\ \E outs \in [1..Len(Get(plan).search_queries) -> SearchOutcomes],
        fout \in FetchOutcomes :
       LET x == step_execute(SERPER_API_KEY, Get(plan), outs, fout) IN
       /\ stepLog' = Append(stepLog, "execute")
       /\ raw_results' = Some(x.raw)
       /\ searchLog' = x.searches
       /\ fetchLog' = x.fetches
       /\ pc' = "extract"
       /\ UNCHANGED <<plan, facts, answer, error>>
  /\ UNCHANGED <<fence, parse, api>>
  /\ UNCHANGED <<GROQ_API_KEY, SERPER_API_KEY, llm, completionCalls>>

\* step_extract wrapped in a handler that carries on with no facts.
StepExtract_swallow ==
  /\ pc = "extract"
  /\ \E r1 \in ProviderAnswers(GROQ_API_KEY, "FactList", Responses("FactList")),
        r2 \in ProviderAnswers(GROQ_API_KEY, "FactList", NextResponses("FactList")) :
       LET r == llm_structured("FactList", <<r1, r2>>) IN
       /\ stepLog' = Append(stepLog, "extract")
       /\ llm' = LlmRecord("FactList", <<r1, r2>>, r)
       /\ completionCalls' = completionCalls + r.calls
       /\ facts' = IF r.ok THEN r.value ELSE Some(<<>>)
       /\ pc' = "synthesize"
       /\ plan' = <<>>
       /\ raw_results' = <<>>
       /\ searchLog' = <<>>
       /\ fetchLog' = <<>>
       /\ UNCHANGED <<answer, error>>
  /\ UNCHANGED <<fence, parse, api>>
  /\ UNCHANGED <<GROQ_API_KEY, SERPER_API_KEY>>

\* step_extract (lines 249-283, called at line 333).
StepExtract ==
  /\ pc = "extract"
  /\ \E r1 \in ProviderAnswers(GROQ_API_KEY, "FactList", Responses("FactList")),
        r2 \in ProviderAnswers(GROQ_API_KEY, "FactList", NextResponses("FactList")) :
       LET r == llm_structured("FactList", <<r1, r2>>) IN
       /\ stepLog' = Append(stepLog, "extract")
       /\ llm' = LlmRecord("FactList", <<r1, r2>>, r)
       /\ completionCalls' = completionCalls + r.calls
       /\ IF r.ok
          THEN /\ facts' = r.value
               /\ pc' = "synthesize"
               /\ plan' = <<>>
               /\ raw_results' = <<>>
               /\ searchLog' = <<>>
               /\ fetchLog' = <<>>
               /\ UNCHANGED <<answer, error>>
          ELSE Raise(r.err)
  /\ UNCHANGED <<fence, parse, api>>
  /\ UNCHANGED <<GROQ_API_KEY, SERPER_API_KEY>>

\* step_synthesize (lines 286-310, called at line 334) and the return of
\* run_agent (line 336).  The deduplicated source list of line 294 goes
\* into the prompt only; the answer is the validated provider object.
StepSynthesize ==
  /\ pc = "synthesize"
  /\ \E r1 \in ProviderAnswers(GROQ_API_KEY, "AgentAnswer", Responses("AgentAnswer")),
        r2 \in ProviderAnswers(GROQ_API_KEY, "AgentAnswer", NextResponses("AgentAnswer")) :
       LET r == llm_structured("AgentAnswer", <<r1, r2>>) IN
       /\ stepLog' = Append(stepLog, "synthesize")
       /\ llm' = LlmRecord("AgentAnswer", <<r1, r2>>, r)
       /\ completionCalls' = completionCalls + r.calls
       /\ IF r.ok
          THEN /\ answer' = r.value
               /\ pc' = "done"
               /\ facts' = <<>>
               /\ UNCHANGED <<plan, raw_results, error, searchLog, fetchLog>>
          ELSE Raise(r.err)
  /\ UNCHANGED <<fence, parse, api>>
  /\ UNCHANGED <<GROQ_API_KEY, SERPER_API_KEY>>

Next == RunAgent \/ StepPlan \/ StepExecute \/ StepExtract \/ StepSynthesize

Spec == Init /\ [][Next]_vars

\* ------------------------------------------- fence stripping on its own
\* llm_structured lines 119-128 as a function of the response text: the
\* inputs are a schema, a schema-valid object, its serialization T, and the
\* response that carries T, bare or enclosed in fence markers.
Schemas == {"AgentPlan", "FactList", "AgentAnswer"}

ValidDocs(output_schema) ==
  {d \in Docs(output_schema) : model_validate_json(output_schema, <<DOC>>, d).ok}

LangTags == {<<>>, <<JSONTAG>>, <<OTHERTAG>>}
Newlines == {<<>>, <<WS>>}

\* T between an opening fence (with its tag) and a closing fence.
Fenced(T, tag, nl) == <<FENCE>> \o tag \o nl \o T \o nl \o <<FENCE>>

FenceInputsOf(sc) ==
  {[pc |-> "response", schema |-> sc, doc |-> d, T |-> t, shape |-> "bare",
    tag |-> <<>>, content |-> t, raw |-> <<>>,
    result |-> [ok |-> FALSE, value |-> <<>>]] :
      d \in ValidDocs(sc), t \in JsonTexts}
  \cup
  {[pc |-> "response", schema |-> sc, doc |-> d, T |-> t, shape |-> "fenced",
    tag |-> tg, content |-> Fenced(t, tg, nl), raw |-> <<>>,
    result |-> [ok |-> FALSE, value |-> <<>>]] :
      d \in ValidDocs(sc), t \in JsonTexts, tg \in LangTags, nl \in Newlines}

FenceInputs == UNION {FenceInputsOf(sc) : sc \in Schemas}

NoEnv == [n \in EnvNames |-> Absent]

InitFence ==
  /\ AgentLoaded(NoEnv)
  /\ fence \in FenceInputs
  /\ parse = NoParse
  /\ api = NoApi

\* Lines 119-128 on the response content.
StripAndValidate ==
  /\ fence.pc = "response"
  /\ LET raw == StripFences(fence.content) IN
     fence' = [fence EXCEPT
                 !.pc = "validated",
                 !.raw = raw,
                 !.result = model_validate_json(fence.schema, raw, fence.doc)]
  /\ UNCHANGED <<agentVars, parse, api>>

NextFence == StripAndValidate

SpecFence == InitFence /\ [][NextFence]_vars

\* ------------------------------------------------ parse_serper_results
\* main.py, lines 183-249.  Names are sequences of characters; a place is
\* the part of a search result the function's control flow reads: its
\* title (an option: a string, or <<>> for null) and whether the remaining
\* members build a Restaurant (an address of null does not validate).
MaxPlaces == 11
MaxLimit == 2

Titles ==
  {<<"a">>, <<"A">>, <<"a", " ">>, <<"a", "1">>, <<" ">>, <<>>}
Places ==
  [title : {Some(t) : t \in Titles} \cup {<<>>}, address : {"addr", None}]

\* str.lower()
LowerChar(c) == IF c = "A" THEN "a" ELSE c
Lower(s) == [k \in 1..Len(s) |-> LowerChar(s[k])]

\* re.sub(r'\W+', '', s): the word characters of s.
IsWordChar(c) == c # " "
Sanitize(s) == SelectSeq(s, IsWordChar)

\* s[:n]
Take(s, n) == SubSeq(s, 1, IF Len(s) < n THEN Len(s) ELSE n)

\* str(i) of a non-negative int.
DecimalDigits == <<"0", "1", "2", "3", "4", "5", "6", "7", "8", "9">>
RECURSIVE Str(_)
Str(i) ==
  IF i < 10 THEN <<DecimalDigits[i + 1]>>
  ELSE Str(i \div 10) \o <<DecimalDigits[(i % 10) + 1]>>

ID_NAME_CHARS == 24

\* Line 222.
NameKey(name) == Strip(Lower(name))
\* Line 227.
Rid(name, i) == Take(Sanitize(Lower(name)), ID_NAME_CHARS) \o Str(i)

\* The call: restaurants and seen are empty (lines 184-185); the loop is
\* entered unless places is empty.  cap is the longest the list can be;
\* its elements are read as the loop reaches them.  origin and firstAt
\* record, for the properties, the input index of each restaurant and the
\* index at which each name key first occurred.
ParseCall(limit, cap, empty) ==
  [pc |-> IF empty THEN "returned" ELSE "loop",
   limit |-> limit, cap |-> cap, i |-> 0, seen |-> {},
   restaurants |-> <<>>, origin |-> <<>>, firstAt |-> {}]

\* One pass through the loop body with places[i] = p (lines 187-247), and
\* the return (line 249) when it was the last element or the loop broke.
Iteration(st, p, last) ==
  LET i == st.i
      raises == ~IsSome(p.title)
      name == Get(p.title)
      name_key == NameKey(name)
      marked == ~raises /\ name_key \notin st.seen /\ name_key # <<>>
      appended == marked /\ p.address # None
      restaurants == IF appended
                     THEN Append(st.restaurants,
                                 [id |-> Rid(name, i), name |-> name])
                     ELSE st.restaurants
      break == appended /\ Len(restaurants) >= st.limit
  IN [st EXCEPT
        !.pc = IF break \/ last THEN "returned" ELSE "loop",
        !.i = i + 1,
        !.seen = IF marked THEN st.seen \cup {name_key} ELSE st.seen,
        !.restaurants = restaurants,
        !.origin = IF appended THEN Append(st.origin, i) ELSE st.origin,
        !.firstAt = IF raises \/ \E f \in st.firstAt : f[1] = name_key
                    THEN st.firstAt
                    ELSE st.firstAt \cup {<<name_key, i>>}]

InitParse ==
  /\ AgentLoaded(NoEnv)
  /\ fence = NoFence
  /\ \E limit \in 0..MaxLimit, empty \in BOOLEAN :
       parse = ParseCall(limit, MaxPlaces, empty)
  /\ api = NoApi

ParseIteration ==
  /\ parse.pc = "loop"
  /\ \E p \in Places, last \in BOOLEAN :
       /\ parse.i + 1 >= parse.cap => last
       /\ parse' = Iteration(parse, p, last)
  /\ UNCHANGED <<agentVars, fence, api>>

NextParse == ParseIteration

SpecParse == InitParse /\ [][NextParse]_vars

\* ------------------------------------------------------- /api/recommend
\* main.py, lines 302-344: one request whose body validated as a
\* RecommendationRequest (lines 74-83).  limit is Optional[int] with no
\* range: an option here, <<>> for null.
ReqLimits == {<<>>} \cup {Some(n) : n \in -1..MaxLimit}

\* seq[:stop]
SliceLen(len, stop) ==
  IF stop >= 0 THEN (IF len < stop THEN len ELSE stop)
  ELSE (IF len + stop > 0 THEN len + stop ELSE 0)
Slice(seq, stop) == SubSeq(seq, 1, SliceLen(Len(seq), stop))

\* What the two Serper requests of search_restaurants_serper come back
\* with (lines 138-180): /places answers 200 with some places, or does not
\* (another status, or no places), or the request raises; the fallback
\* /search raises, answers another status than 200, or answers 200 with
\* count results (localResults and organic together).
FallbackCounts == {0, 1, MaxPlaces}
SerperOutcomes ==
  [places : {"found"}, search : {"unused"}, count : {0}]
  \cup [places : {"raises"}, search : {"unused"}, count : {0}]
  \cup [places : {"nothing"}, search : {"raises", "not200"}, count : {0}]
  \cup [places : {"nothing"}, search : {"ok"}, count : FallbackCounts]

\* search_restaurants_serper (lines 116-180) as recommend_restaurants sees
\* it (lines 305-319): the status it ends the request with (0: none), and
\* the longest the returned list can be (0: the list is empty).
search_restaurants_serper(limit, out) ==
  IF ~IsSome(limit) THEN [status |-> 500, cap |-> 0]
  ELSE IF out.places = "raises" THEN [status |-> 500, cap |-> 0]
  ELSE IF out.places = "found" THEN [status |-> 0, cap |-> MaxPlaces]
  ELSE IF out.search = "raises" THEN [status |-> 500, cap |-> 0]
  ELSE IF out.search = "not200" THEN [status |-> 503, cap |-> 0]
  ELSE [status |-> 0, cap |-> SliceLen(out.count, Get(limit) * 3)]

Request(limit) ==
  [pc |-> "search", limit |-> limit, status |-> 0, reason |-> "none",
   llmCalls |-> 0, shown |-> <<>>, restaurants |-> <<>>]

InitApi ==
  /\ AgentLoaded(NoEnv)
  /\ fence = NoFence
  /\ parse = NoParse
  /\ \E limit \in ReqLimits : api = Request(limit)

\* The response leaves the handler; its locals are gone.
Respond(status, reason, llmCalls, shown, restaurants) ==
  /\ api' = [api EXCEPT !.pc = "done", !.status = status, !.reason = reason,
                        !.llmCalls = llmCalls, !.shown = shown,
                        !.restaurants = restaurants]
  /\ parse' = NoParse

\* Lines 305-327: the search, its failures, the 404 for no places, and the
\* call of parse_serper_results with req.limit * 2.
ApiSearch ==
  /\ api.pc = "search"
  /\ \E out \in SerperOutcomes :
       LET r == search_restaurants_serper(api.limit, out) IN
       IF r.status # 0
       THEN Respond(r.status, "search failed", 0, <<>>, <<>>)
       ELSE IF r.cap = 0
       THEN Respond(404, "no places", 0, <<>>, <<>>)
       ELSE /\ api' = [api EXCEPT !.pc = "parse"]
            /\ parse' = ParseCall(Get(api.limit) * 2, r.cap, FALSE)
  /\ UNCHANGED <<agentVars, fence>>

\* Lines 330-344, once parse_serper_results has returned: the 404 for no
\* restaurant, ask_llama (lines 252-288) and the response.
ApiRecommend ==
  /\ api.pc = "parse"
  /\ parse.pc = "returned"
  /\ LET all_restaurants == parse.restaurants IN
     IF all_restaurants = <<>>
     THEN Respond(404, "not parsed", 0, <<>>, <<>>)
     ELSE \E ask_llama \in {"returns", "raises"} :
            IF ask_llama = "raises"
            THEN Respond(500, "llm failed", 1, all_restaurants, <<>>)
            ELSE Respond(200, "ok", 1, all_restaurants,
                         Some(Slice(all_restaurants, Get(api.limit))))
  /\ UNCHANGED <<agentVars, fence>>

\* parse_serper_results inside the request.
ApiParse ==
  /\ api.pc = "parse"
  /\ ParseIteration

NextApi == ApiSearch \/ ApiParse \/ ApiRecommend

SpecApi == InitApi /\ [][NextApi]_vars

\* =================================================================== claims

C2_AtMostTwoCalls ==
  /\ llm.calls <= 2
  /\ llm.schema # "none" => llm.calls >= 1
  /\ completionCalls <= 2 * Cardinality({i \in 1..Len(stepLog) : stepLog[i] # "execute"})

\* C2 witness: a call that ended although neither the response it got nor
\* the one a further call would get was acceptable.
C2_Witness ==
  llm.first \in {"invalid", "down"} /\ llm.next \in {"invalid", "down"}
    /\ llm.schema = "FactList"

\* C3: a run ends in exactly one of two outcomes, a fully populated and
\* valid AgentAnswer or an error; a step whose response is schema-invalid
\* ends the run with the validation error and no answer object.
C3_AnswerOrError ==
  /\ pc = "done" =>
       /\ error = "none"
       /\ IsSome(answer)
       /\ Get(answer).query # Absent
       /\ Get(answer).summary # Absent
       /\ Get(answer).confidence \in 0..10
       /\ \A i \in 1..Len(Get(answer).key_facts) :
            /\ Get(answer).key_facts[i].fact # Absent
            /\ Get(answer).key_facts[i].source # Absent
            /\ Get(answer).key_facts[i].confidence \in 0..10
  /\ pc = "failed" => (error # "none" /\ answer = <<>>)
  /\ pc \notin {"done", "failed"} => (error = "none" /\ answer = <<>>)
  /\ llm.first = "invalid" =>
       (pc = "failed" /\ error = "ValidationError" /\ answer = <<>>)

\* C3 witness: the synthesizer's response was schema-invalid, and so would
\* the next one have been; the run has failed.
C3_Witness ==
  /\ pc = "failed"
  /\ llm.schema = "AgentAnswer"
  /\ llm.first = "invalid"
  /\ llm.next = "invalid"

\* C5: the steps start in the order Plan, Execute, Extract, Synthesize, each
\* at most once and only after the step before it succeeded; a failure of
\* Plan, Extract or Synthesize ends the run at that step.
StepOrder == <<"plan", "execute", "extract", "synthesize">>
StepOfSchema(sch) ==
  CASE sch = "AgentPlan" -> "plan"
    [] sch = "FactList" -> "extract"
    [] sch = "AgentAnswer" -> "synthesize"
    [] OTHER -> "none"

C5_StepOrder ==
  /\ Len(stepLog) <= Len(StepOrder)
  /\ \A i \in 1..Len(stepLog) : stepLog[i] = StepOrder[i]
  /\ pc \in {"idle", "plan"} => stepLog = <<>>
  /\ pc = "execute" => (Len(stepLog) = 1 /\ IsSome(plan) /\ llm.ok)
  /\ pc = "extract" => (Len(stepLog) = 2 /\ IsSome(raw_results))
  /\ pc = "synthesize" => (Len(stepLog) = 3 /\ IsSome(facts) /\ llm.ok)
  /\ pc = "done" => (Len(stepLog) = 4 /\ llm.ok)
  /\ pc = "failed" =>
       /\ stepLog # <<>>
       /\ stepLog[Len(stepLog)] \in {"plan", "extract", "synthesize"}
       /\ stepLog[Len(stepLog)] = StepOfSchema(llm.schema)
       /\ ~llm.ok
       /\ error = llm.err

\* C5 witness: Extract failed after Plan and Execute, and Synthesize never
\* started.
C5_Witness ==
  pc = "failed" /\ stepLog = <<"plan", "execute", "extract">>

\* C6: every ExtractedFact that Extract returns and every AgentAnswer a run
\* returns, with each of its key_facts, has a confidence within [0, 1]
\* (0..10 tenths).
C6_ConfidenceInUnit ==
  /\ pc = "synthesize" =>
       \A i \in 1..Len(Get(facts)) : Get(facts)[i].confidence \in 0..10
  /\ pc = "done" =>
       /\ Get(answer).confidence \in 0..10
       /\ \A i \in 1..Len(Get(answer).key_facts) :
            Get(answer).key_facts[i].confidence \in 0..10

\* C6 witness: an answer at the upper end of the interval carrying a fact
\* at the lower end.
C6_Witness ==
  /\ pc = "done"
  /\ Get(answer).confidence = 10
  /\ Len(Get(answer).key_facts) = 1
  /\ Get(answer).key_facts[1].confidence = 0

\* The queries of the requests that reached the Search Provider, in order.
RECURSIVE Requested(_)
Requested(log) ==
  IF log = <<>> THEN <<>>
  ELSE (IF Head(log).requested THEN <<Head(log).query>> ELSE <<>>)
       \o Requested(Tail(log))

PlannedQueries(p) == [i \in 1..Len(p.search_queries) |-> p.search_queries[i].query]

\* C7 (as claimed): during Execute the Search Provider is called exactly
\* once per planned search task, in plan order; the Fetch Provider is called
\* exactly once if the plan carries a target_url and not at all otherwise;
\* no Completion Provider call is made during Execute.
C7_SearchEachFetchIfUrl ==
  pc = "extract" =>
    /\ Requested(searchLog) = PlannedQueries(Get(plan))
    /\ Len(fetchLog) = IF Truthy(Get(plan).target_url) THEN 1 ELSE 0
    /\ completionCalls = 1

\* C7 (amended): during Execute search_web is called exactly once per planned
\* search task, in plan order, and each call sends one Search Provider
\* request when SERPER_API_KEY is set and none when it is empty; the Fetch
\* Provider is called exactly once, with target_url, if needs_url_fetch is
\* true and target_url is a non-empty string, and not at all otherwise; no
\* Completion Provider call is made during Execute.
C7_SearchEachFetchIfFlagged ==
  pc = "extract" =>
    /\ [i \in 1..Len(searchLog) |-> searchLog[i].query]
         = PlannedQueries(Get(plan))
    /\ \A i \in 1..Len(searchLog) :
         searchLog[i].requested = (SERPER_API_KEY # "")
    /\ IF Get(plan).needs_url_fetch /\ Get(plan).target_url \notin {None, ""}
       THEN Len(fetchLog) = 1 /\ fetchLog[1].url = Get(plan).target_url
       ELSE fetchLog = <<>>
    /\ completionCalls = 1

\* C7 witness: Execute has run two planned searches against the provider
\* and skipped the fetch of a planned target_url whose flag was off.
C7_Witness ==
  /\ pc = "extract"
  /\ Len(Get(plan).search_queries) = 2
  /\ Len(Requested(searchLog)) = 2
  /\ Get(plan).target_url = "u"
  /\ ~Get(plan).needs_url_fetch
  /\ fetchLog = <<>>

\* C8: after Execute every planned search task's result list is in the
\* mapping under the task's own key, none overwritten by another task's
\* output; the fetched page text sits under "__url_fetch__"; and Extract
\* reads as webpage content nothing but the fetched text and reads every
\* search result as a source.
C8_KeyedByTask ==
  pc = "extract" =>
    LET raw == Get(raw_results)
        lines == ContextLines(raw)
    IN /\ \A i \in 1..Len(searchLog) :
            /\ DictHas(raw, searchLog[i].query)
            /\ DictGet(raw, searchLog[i].query) = ListVal(searchLog[i].results)
       /\ fetchLog # <<>> =>
            /\ DictHas(raw, URL_FETCH_KEY)
            /\ DictGet(raw, URL_FETCH_KEY) = TextVal(fetchLog[1].text)
       /\ \A j \in 1..Len(lines) :
            lines[j].kind = "webpage" =>
              (fetchLog # <<>> /\ lines[j].body = TextVal(fetchLog[1].text))
       /\ \A i \in 1..Len(searchLog) : \A k \in 1..Len(searchLog[i].results) :
            \E j \in 1..Len(lines) :
              /\ lines[j].kind = "source"
              /\ lines[j].body = ListVal(<<searchLog[i].results[k]>>)

C9_FailFast ==
  (GROQ_API_KEY = PLACEHOLDER_KEY \/ SERPER_API_KEY = "") =>
    /\ pc \in {"idle", "failed"}
    /\ stepLog = <<>>
    /\ completionCalls = 0
    /\ Requested(searchLog) = <<>>

\* C9 (amended): a missing credential does not stop the research agent at
\* startup and raises no configuration error: run_agent can be entered;
\* with SERPER_API_KEY missing no Search Provider request is ever made and
\* every search_web call returns the one mock result; with GROQ_API_KEY
\* missing the placeholder key is used and the Completion Provider is
\* still called by Plan.
C9_NoStartupCheck ==
  /\ pc = "idle" => ENABLED RunAgent
  /\ error # "ConfigurationError"
  /\ SERPER_API_KEY = "" =>
       \A i \in 1..Len(searchLog) :
         ~searchLog[i].requested /\ searchLog[i].results = <<MockResult>>
  /\ (GROQ_API_KEY = PLACEHOLDER_KEY /\ stepLog # <<>>) => completionCalls >= 1

\* C9 witness: without a search key Execute has run a planned search and
\* holds its mock result.
C9_Witness ==
  /\ SERPER_API_KEY = ""
  /\ pc = "extract"
  /\ Len(searchLog) >= 1
  /\ DictGet(Get(raw_results), searchLog[1].query).kind = "list"

\* C10: in every AgentAnswer a run returns no URL occurs more than once in
\* sources.
C10_SourcesDistinct ==
  pc = "done" =>
    \A i, j \in 1..Len(Get(answer).sources) :
      Get(answer).sources[i] = Get(answer).sources[j] => i = j

\* C11: fence stripping is transparent -- for every schema-valid serialized
\* object T, the response that encloses T in fence markers (with or without
\* a language tag) validates to the same object as the bare response T, and
\* stripping leaves a bare T as it is.
C11_FenceTransparent ==
  fence.pc = "validated" =>
    /\ fence.result = model_validate_json(fence.schema, fence.T, fence.doc)
    /\ fence.result = [ok |-> TRUE, value |-> Some(fence.doc)]
    /\ fence.shape = "bare" => fence.raw = fence.T

\* C12: for every list of search results and every non-negative limit,
\* parse_serper_results returns at most limit restaurants, in input order of
\* first occurrence, whose names are non-empty and pairwise distinct after
\* lower-casing and trimming.
C12_AtMostLimitDistinct ==
  parse.pc = "returned" =>
    LET rs == parse.restaurants IN
    /\ Len(rs) <= parse.limit
    /\ \A j, k \in 1..Len(rs) : j < k => parse.origin[j] < parse.origin[k]
    /\ \A j \in 1..Len(rs) :
         /\ NameKey(rs[j].name) # <<>>
         /\ <<NameKey(rs[j].name), parse.origin[j]>> \in parse.firstAt
    /\ \A j, k \in 1..Len(rs) :
         j # k => NameKey(rs[j].name) # NameKey(rs[k].name)

\* C13: the restaurants returned by one parse_serper_results call have
\* pairwise distinct id values, the id being the sanitized lower-case name
\* truncated to 24 characters followed by the decimal input index.
C13_IdsDistinct ==
  parse.pc = "returned" =>
    LET rs == parse.restaurants IN
    /\ \A j \in 1..Len(rs) : rs[j].id = Rid(rs[j].name, parse.origin[j])
    /\ \A j, k \in 1..Len(rs) : j # k => rs[j].id # rs[k].id

\* C14: every /api/recommend request ends in exactly one outcome -- 404 when
\* the search returns no places or no place parses into a restaurant (the
\* LLM is then never called), an error status when the search, parse or LLM
\* step fails, or a success response with at least 1 and at most req.limit
\* restaurants, all of which were among those shown to the LLM.
C14_OneOutcome ==
  api.pc = "done" =>
    /\ api.status \in {200, 404, 500, 503}
    /\ api.status = 404 <=> api.reason \in {"no places", "not parsed"}
    /\ api.status = 404 => api.llmCalls = 0
    /\ api.status \in {500, 503} <=> api.reason \in {"search failed", "llm failed"}
    /\ api.status = 200 =>
         /\ api.reason = "ok"
         /\ IsSome(api.restaurants)
         /\ LET rs == Get(api.restaurants) IN
            /\ Len(rs) >= 1
            /\ Len(rs) <= Get(api.limit)
            /\ \A j \in 1..Len(rs) :
                 \E k \in 1..Len(api.shown) : api.shown[k] = rs[j]

====
